---- MODULE Spec2Model ----
(***************************************************************************)
(* Model of the Swiss pairing engine of src/app.py: the Player and Pairing *)
(* data classes, Tournament construction (load_from_json + update_ranks)   *)
(* and SwissPairingEngine.compute_pairings with its helpers.               *)
(*                                                                         *)
(* A Player object is identified by its position in tournament.players     *)
(* (which is its rank, and which never changes after construction), so a   *)
(* Python list of Player objects is a sequence of such positions.  The     *)
(* dataclass-generated Player.__eq__ compares all fields, rank included,   *)
(* so list.remove(x) removes exactly the object x.                         *)
(* Scores are floats in the code; the model uses integers (units of half   *)
(* points).  The opponents list is only ever tested for membership, so it  *)
(* is modelled as the set of its elements.  Player.preferred_color is      *)
(* never read by the engine and is left out.                               *)
(***************************************************************************)
EXTENDS Integers, Sequences, FiniteSets, TLC

(* ---------------------------- bounds ----------------------------------- *)
MaxPlayers == 3       \* players in the ranking and bye input families
MaxColourPlayers == 2 \* players in the colour input family
MaxPool    == 4       \* players in the matching input family
MaxGames   == 1       \* longest color_history
MaxScore   == 1       \* scores of the ranking and matching families: 0..MaxScore
MaxRating  == 2       \* ratings are 1..MaxRating
MaxCalls   == 2       \* calls of compute_pairings on one Tournament

None == 0             \* Python's None, as a Player reference

Colors == {"white", "black"}

\* ids of the player records, in input order (0-indexed, id = str(index))
PlayerIds == <<"0", "1", "2", "3", "4", "5", "6">>

(* ---------------------------- helpers ---------------------------------- *)
Range(s) == {s[i] : i \in 1..Len(s)}

Abs(x) == IF x < 0 THEN -x ELSE x

MaxOf(S) == CHOOSE x \in S : \A y \in S : y <= x

\* list.count(x)
Count(s, x) == Cardinality({i \in 1..Len(s) : s[i] = x})

\* list.remove(x): drops the first element equal to x
Remove(s, x) ==
  IF \E i \in 1..Len(s) : s[i] = x
  THEN LET i == CHOOSE k \in 1..Len(s) : s[k] = x /\ \A j \in 1..(k - 1) : s[j] # x
       IN  SubSeq(s, 1, i - 1) \o SubSeq(s, i + 1, Len(s))
  ELSE s

RECURSIVE RemoveAll(_, _)
\* the loop "for x in xs: s.remove(x)"
RemoveAll(s, xs) ==
  IF xs = <<>> THEN s ELSE RemoveAll(Remove(s, Head(xs)), Tail(xs))

\* Python's < on two tuples of numbers of the same length
TupleLess(a, b) ==
  \E k \in 1..Len(a) : a[k] < b[k] /\ \A j \in 1..(k - 1) : a[j] = b[j]

\* list.sort(key=...): a stable sort of s, where keys[i] is the key (a tuple
\* of numbers) of s[i]; elements with equal keys keep their order
StableSort(s, keys) ==
  LET n == Len(s)
      pos(i) == 1 + Cardinality({j \in 1..n :
                       \/ TupleLess(keys[j], keys[i])
                       \/ (j < i /\ ~TupleLess(keys[i], keys[j]))})
  IN  [k \in 1..n |-> s[CHOOSE i \in 1..n : pos(i) = k]]

\* all sequences over S of length at most n
SeqsUpTo(S, n) == UNION {[1..k -> S] : k \in 0..n}

(* ---------------------------- Player ----------------------------------- *)
\* Player.calculate_color_balance
calculate_color_balance(color_history) ==
  Count(color_history, "white") - Count(color_history, "black")

\* Player(...) with __post_init__; rank is assigned by update_ranks
Player(id, rating, score, color_history, opponents, has_bye) ==
  [id |-> id, rating |-> rating, score |-> score,
   color_history |-> color_history, opponents |-> opponents,
   rank |-> 0, color_balance |-> calculate_color_balance(color_history),
   has_bye |-> has_bye]

(* ---------------------------- Pairing ---------------------------------- *)
\* Pairing.__init__(white, black)
Pairing(white, black) ==
  [white |-> white, black |-> black, is_bye |-> (black = "" \/ black = "0")]

\* Pairing(white): the default black = ""
ByePairing(white) == Pairing(white, "")

(* ---------------------------- Tournament ------------------------------- *)
\* the sort key of update_ranks
RankKey(p) == <<-p.score, -p.rating>>

\* Tournament.update_ranks
update_ranks(ps) ==
  LET sorted == StableSort(ps, [i \in 1..Len(ps) |-> RankKey(ps[i])])
  IN  [i \in 1..Len(sorted) |-> [sorted[i] EXCEPT !.rank = i]]

\* Tournament.load_from_json: the records become Player objects, in input order
load_from_json(records) ==
  [i \in 1..Len(records) |->
     Player(records[i].id, records[i].rating, records[i].score,
            records[i].color_history, records[i].opponents, records[i].has_bye)]

\* Tournament.__init__
Tournament(records) == update_ranks(load_from_json(records))

(* ---------------------------- engine helpers --------------------------- *)
\* compute_pairings, line 147
MaxGamesOf(ps, avail) ==
  IF avail # <<>> THEN MaxOf({Len(ps[i].color_history) : i \in Range(avail)}) ELSE 0

\* LateJoiners, skipping players whose has_bye flag is already set
LateJoiners_SkipByed(ps, avail) ==
  SelectSeq(avail, LAMBDA i : /\ Len(ps[i].color_history) < MaxGamesOf(ps, avail)
                              /\ ~ps[i].has_bye)

\* compute_pairings, line 150
LateJoiners(ps, avail) ==
  SelectSeq(avail, LAMBDA i : Len(ps[i].color_history) < MaxGamesOf(ps, avail))

\* OddPool, never reporting an odd pool
OddPool_Never(avail) == FALSE

\* compute_pairings, line 157
OddPool(avail) == Len(avail) % 2 = 1

\* max(list, key=rank): the first element with the largest key
MaxByRank(ps, s) ==
  s[CHOOSE i \in 1..Len(s) :
      /\ \A j \in 1..Len(s) : ps[s[j]].rank <= ps[s[i]].rank
      /\ \A j \in 1..(i - 1) : ps[s[j]].rank < ps[s[i]].rank]

\* select_bye_player, line 182
NoByePlayers(ps, pool) == SelectSeq(pool, LAMBDA i : ~ps[i].has_bye)

\* select_bye_player, ignoring the has_bye flags
select_bye_player_IgnoreFlag(ps, pool) == MaxByRank(ps, pool)

\* SwissPairingEngine.select_bye_player
select_bye_player(ps, pool) ==
  IF NoByePlayers(ps, pool) # <<>>
  THEN MaxByRank(ps, NoByePlayers(ps, pool))
  ELSE MaxByRank(ps, pool)

\* ValidOpponents, without the opponent-history filter
ValidOpponents_NoFilter(ps, player, candidates) == candidates

\* find_best_opponent, line 194
ValidOpponents(ps, player, candidates) ==
  SelectSeq(candidates, LAMBDA i : ps[i].id \notin ps[player].opponents)

\* SortByScoreDistance, farthest score first
SortByScoreDistance_Descending(ps, player, s) ==
  StableSort(s, [i \in 1..Len(s) |-> <<-Abs(ps[s[i]].score - ps[player].score)>>])

\* find_best_opponent, line 204: sort(key=abs(p.score - player.score))
SortByScoreDistance(ps, player, s) ==
  StableSort(s, [i \in 1..Len(s) |-> <<Abs(ps[s[i]].score - ps[player].score)>>])

\* find_best_opponent, returning the last element of the sorted list
find_best_opponent_Last(ps, player, candidates) ==
  LET filtered == ValidOpponents(ps, player, candidates)
      fallback == filtered = <<>>
      valid_opponents == IF fallback THEN candidates ELSE filtered
      sorted == SortByScoreDistance(ps, player, valid_opponents)
  IN  [fallback   |-> fallback,
       valid      |-> valid_opponents,
       result     |-> IF valid_opponents = <<>> THEN None ELSE sorted[Len(sorted)],
       candidates |-> IF fallback THEN sorted ELSE candidates]

\* SwissPairingEngine.find_best_opponent.  valid_opponents is a new list when
\* the filter leaves something, and the candidates list itself otherwise; the
\* sort is in place, so in the second case it reorders the caller's list.
find_best_opponent(ps, player, candidates) ==
  LET filtered == ValidOpponents(ps, player, candidates)
      fallback == filtered = <<>>
      valid_opponents == IF fallback THEN candidates ELSE filtered
      sorted == SortByScoreDistance(ps, player, valid_opponents)
  IN  [fallback   |-> fallback,
       valid      |-> valid_opponents,
       result     |-> IF valid_opponents = <<>> THEN None ELSE sorted[1],
       candidates |-> IF fallback THEN sorted ELSE candidates]

\* assign_colors, with a strict rating comparison
assign_colors_Strict(ps, player1, player2) ==
  IF ps[player1].color_balance > ps[player2].color_balance THEN <<player2, player1>>
  ELSE IF ps[player2].color_balance > ps[player1].color_balance THEN <<player1, player2>>
  ELSE IF ps[player1].rating > ps[player2].rating THEN <<player1, player2>>
  ELSE <<player2, player1>>

\* SwissPairingEngine.assign_colors: <<white_player, black_player>>
assign_colors(ps, player1, player2) ==
  IF ps[player1].color_balance > ps[player2].color_balance THEN <<player2, player1>>
  ELSE IF ps[player2].color_balance > ps[player1].color_balance THEN <<player1, player2>>
  ELSE IF ps[player1].rating >= ps[player2].rating THEN <<player1, player2>>
  ELSE <<player2, player1>>

(* ---------------------------- state ------------------------------------ *)
VARIABLES
  players,            \* tournament.players: Player records in rank order
  pc,                 \* "ready" | "loop" (head of the while loop) | "error"
  available_players,  \* compute_pairings: the pool
  pairings,           \* compute_pairings: the result list being built
  late_joiners,       \* compute_pairings: the late_joiners list
  bye_pool,           \* the pool handed to the odd-pool test of line 157
  bye_flags,          \* has_bye of every player when line 157 is reached
  bye_player,         \* the player chosen at line 158, None when the pool is even
  steps,              \* history of the loop iterations of the current call
  results             \* the lists returned by the calls made so far

vars == <<players, pc, available_players, pairings, late_joiners, bye_pool,
          bye_flags, bye_player, steps, results>>

(* ---------------------------- inputs ----------------------------------- *)
\* the games played so far, as unordered pairs of input positions
Games(n) == {g \in (1..n) \X (1..n) : g[1] < g[2]}

\* the opponents list of input record i after the games of played
OpponentsOf(i, played) ==
  {PlayerIds[g[2]] : g \in {h \in played : h[1] = i}}
  \cup {PlayerIds[g[1]] : g \in {h \in played : h[2] = i}}

Records(n, rating, score, history, bye, played) ==
  [i \in 1..n |->
     [id |-> PlayerIds[i], rating |-> rating[i], score |-> score[i],
      color_history |-> history[i], has_bye |-> bye[i],
      opponents |-> OpponentsOf(i, played)]]

\* the state after Tournament(json_data), for the input records rs
Constructed(rs) ==
  /\ players = Tournament(rs)
  /\ pc = "ready"
  /\ available_players = <<>>
  /\ pairings = <<>>
  /\ late_joiners = <<>>
  /\ bye_pool = <<>>
  /\ bye_flags = <<>>
  /\ bye_player = None
  /\ steps = <<>>
  /\ results = <<>>

\* snapshots in any input order, with any scores and ratings (ties included)
InitRanking ==
  \E n \in 0..MaxPlayers :
    \E sc \in [1..n -> 0..MaxScore], r \in [1..n -> 1..MaxRating] :
      Constructed(Records(n, r, sc, [i \in 1..n |-> <<>>], [i \in 1..n |-> FALSE], {}))

\* snapshots varying the number of games played and the has_bye flags
InitByes ==
  \E n \in 0..MaxPlayers :
    \E len \in [1..n -> 0..MaxGames], b \in [1..n -> BOOLEAN] :
      Constructed(Records(n, [i \in 1..n |-> 1], [i \in 1..n |-> 0],
                          [i \in 1..n |-> [k \in 1..len[i] |-> "white"]], b, {}))

\* snapshots of players with distinct scores, varying ratings and colour
\* histories
InitColours ==
  \E n \in 0..MaxColourPlayers :
    \E r \in [1..n -> 1..MaxRating], h \in [1..n -> SeqsUpTo(Colors, MaxGames)] :
      Constructed(Records(n, r, [i \in 1..n |-> n - i], h, [i \in 1..n |-> FALSE], {}))

\* snapshots listed by score, varying the scores and the games played so far
InitMatch ==
  \E n \in 0..MaxPool :
    \E played \in SUBSET Games(n) :
      \E sc \in [1..n -> 0..MaxScore] :
        /\ \A i, j \in 1..n : i < j => sc[i] >= sc[j]
        /\ Constructed(Records(n, [i \in 1..n |-> 1], sc, [i \in 1..n |-> <<>>],
                               [i \in 1..n |-> FALSE], played))

Init == InitRanking \/ InitByes \/ InitColours \/ InitMatch

(* ---------------------------- actions ---------------------------------- *)
\* compute_pairings, lines 143-161: late-joiner byes and the odd-pool bye.
\* (The locals are bound with \E over singleton sets so that each is
\* evaluated once.)
Begin ==
  /\ pc = "ready"
  /\ Len(results) < MaxCalls
  /\ \E all \in {[i \in 1..Len(players) |-> i]} :
     \E late \in {LateJoiners(players, all)} :
     \E pool \in {RemoveAll(all, late)} :
     \E ps1 \in {[i \in 1..Len(players) |->
                    IF i \in Range(late) THEN [players[i] EXCEPT !.has_bye = TRUE]
                    ELSE players[i]]} :
     \E bye \in {IF OddPool(pool) THEN select_bye_player(ps1, pool) ELSE None} :
       /\ late_joiners' = late
       /\ bye_pool' = pool
       /\ bye_flags' = [i \in 1..Len(ps1) |-> ps1[i].has_bye]
       /\ bye_player' = bye
       /\ IF OddPool(pool)
          THEN /\ available_players' = Remove(pool, bye)
               /\ players' = [ps1 EXCEPT ![bye].has_bye = TRUE]
               /\ pairings' = Append([k \in 1..Len(late) |-> ByePairing(ps1[late[k]].id)],
                                     ByePairing(ps1[bye].id))
          ELSE /\ available_players' = pool
               /\ players' = ps1
               /\ pairings' = [k \in 1..Len(late) |-> ByePairing(ps1[late[k]].id)]
  /\ steps' = <<>>
  /\ pc' = "loop"
  /\ UNCHANGED results

\* compute_pairings, lines 164-175: one iteration of the while loop
MatchStep ==
  /\ pc = "loop"
  /\ Len(available_players) >= 2
  /\ \E player1 \in {Head(available_players)} :
     \E popped \in {Tail(available_players)} :
     \E found \in {find_best_opponent(players, player1, popped)} :
     \E player2 \in {found.result} :
       IF player2 = None
       THEN /\ pc' = "error"
            /\ available_players' = found.candidates
            /\ UNCHANGED <<pairings, steps>>
       ELSE \E wb \in {assign_colors(players, player1, player2)} :
              /\ pc' = "loop"
              /\ available_players' = Remove(found.candidates, player2)
              /\ pairings' = Append(pairings, Pairing(players[wb[1]].id, players[wb[2]].id))
              /\ steps' = Append(steps,
                            [pool |-> available_players, player1 |-> player1,
                             candidates |-> popped, valid |-> found.valid,
                             fallback |-> found.fallback, player2 |-> player2,
                             white |-> wb[1], black |-> wb[2],
                             index |-> Len(pairings) + 1])
  /\ UNCHANGED <<players, late_joiners, bye_pool, bye_flags, bye_player, results>>

\* compute_pairings, line 177: the loop ends and the list is returned
Return ==
  /\ pc = "loop"
  /\ Len(available_players) < 2
  /\ results' = Append(results, pairings)
  /\ pc' = "ready"
  /\ UNCHANGED <<players, available_players, pairings, late_joiners, bye_pool,
                 bye_flags, bye_player, steps>>

Next == Begin \/ MatchStep \/ Return

Spec == Init /\ [][Next]_vars

\* compute_pairings is a synchronous call: once started it runs to its return.
\* (Scores, ratings and colours do not steer the control flow, so the
\* termination check takes the snapshots that vary pool sizes, game counts,
\* has_bye flags and opponent histories.)
FairSpec == (InitByes \/ InitMatch) /\ [][Next]_vars /\ WF_vars(Next)

TypeOK == pc \in {"ready", "loop", "error"}

(* ---------------------------- properties ------------------------------- *)
\* a call of compute_pairings has got past line 161
Started == pc = "loop" \/ results # <<>>

\* a call of compute_pairings has returned and no other is running
Returned == pc = "ready" /\ results # <<>>

AllPlayers == 1..Len(players)

\* the pool position of x in the list s
PosIn(s, x) == CHOOSE k \in 1..Len(s) : s[k] = x

Increasing(s) == \A j, k \in 1..Len(s) : j < k => s[j] < s[k]

\* the number of bye Pairings compute_pairings produced
ByeCount == Len(late_joiners) + (IF bye_player # None THEN 1 ELSE 0)

\* the number of Pairings of ps in which id occurs: as white (of a decided
\* pair or as the bye subject) or as the black of a decided pair
Occurrences(id, ps) ==
  Cardinality({k \in 1..Len(ps) : ps[k].white = id})
  + Cardinality({k \in 1..Len(ps) : ~ps[k].is_bye /\ ps[k].black = id})

CoverageByFields ==
  Returned =>
    \A i \in AllPlayers :
      Cardinality({k \in 1..Len(pairings) : pairings[k].white = players[i].id})
      + Cardinality({k \in 1..Len(steps) : pairings[steps[k].index].black = players[i].id})
      = 1

\* C2: two calls of compute_pairings in a row on the same Tournament return
\* identical ordered sequences of Pairings.
Determinism == Len(results) >= 2 => results[2] = results[1]

InHistory(anchor, c) == players[c].id \in players[anchor].opponents

\* C3: the chosen opponent of a decided pair is in the anchor's opponent
\* history only if every player remaining in the pool at that moment is.
RematchAvoidance ==
  \A k \in 1..Len(steps) :
    InHistory(steps[k].player1, steps[k].player2) =>
      \A c \in Range(steps[k].candidates) : InHistory(steps[k].player1, c)

\* a step that passed over the first pool member, a past opponent, for a new one
RematchAvoided ==
  \E k \in 1..Len(steps) :
    /\ InHistory(steps[k].player1, steps[k].candidates[1])
    /\ ~InHistory(steps[k].player1, steps[k].player2)

LongestHistory ==
  IF players = <<>> THEN 0 ELSE MaxOf({Len(players[i].color_history) : i \in AllPlayers})

IsLate(i) == Len(players[i].color_history) < LongestHistory

\* C4: an odd pool (after late-joiner removal) gives exactly one odd-pool bye,
\* to the worst-ranked pool member without has_bye, or to the worst-ranked
\* pool member when all have has_bye; an even pool gives no odd-pool bye.
OddPoolByePolicy ==
  Started =>
    /\ Range(bye_pool) = {i \in AllPlayers : ~IsLate(i)}
    /\ IF Len(bye_pool) % 2 = 1
       THEN /\ bye_player \in Range(bye_pool)
            /\ IF \E i \in Range(bye_pool) : ~bye_flags[i]
               THEN /\ ~bye_flags[bye_player]
                    /\ \A i \in Range(bye_pool) :
                         ~bye_flags[i] => players[i].rank <= players[bye_player].rank
               ELSE \A i \in Range(bye_pool) : players[i].rank <= players[bye_player].rank
            /\ players[bye_player].has_bye
            /\ bye_player \notin Range(available_players)
            /\ pairings[Len(late_joiners) + 1] =
                 [white |-> players[bye_player].id, black |-> "", is_bye |-> TRUE]
            /\ Len(pairings) = Len(late_joiners) + 1 + Len(steps)
       ELSE /\ bye_player = None
            /\ Len(pairings) = Len(late_joiners) + Len(steps)

\* the odd-pool bye went past a worse-ranked pool member that already had a bye
ByedPlayerSkipped ==
  /\ Started
  /\ bye_player # None
  /\ \E i \in Range(bye_pool) :
       bye_flags[i] /\ players[i].rank > players[bye_player].rank

Balance(i) ==
  Cardinality({k \in 1..Len(players[i].color_history) : players[i].color_history[k] = "white"})
  - Cardinality({k \in 1..Len(players[i].color_history) : players[i].color_history[k] = "black"})

Emitted(w, b) == [white |-> players[w].id, black |-> players[b].id]

\* the white and black ids of the Pairing emitted by iteration k
EmittedBy(k) ==
  [white |-> pairings[steps[k].index].white, black |-> pairings[steps[k].index].black]

\* C5: in a decided pair of anchor A and opponent B the player with the
\* strictly greater colour balance is black; with equal balances the strictly
\* higher rated is white; with equal balances and ratings A is white.
ColourAssignment ==
  \A k \in 1..Len(steps) :
    LET A == steps[k].player1
        B == steps[k].player2
    IN  /\ Balance(A) > Balance(B) => EmittedBy(k) = Emitted(B, A)
        /\ Balance(B) > Balance(A) => EmittedBy(k) = Emitted(A, B)
        /\ Balance(A) = Balance(B) =>
             /\ players[A].rating > players[B].rating => EmittedBy(k) = Emitted(A, B)
             /\ players[B].rating > players[A].rating => EmittedBy(k) = Emitted(B, A)
             /\ players[A].rating = players[B].rating => EmittedBy(k) = Emitted(A, B)

\* a pair with equal, non-zero balances in which the opponent has the
\* strictly higher rating and so plays white
WhiteByRating ==
  \E k \in 1..Len(steps) :
    /\ Balance(steps[k].player1) = Balance(steps[k].player2)
    /\ Balance(steps[k].player1) # 0
    /\ players[steps[k].player2].rating > players[steps[k].player1].rating
    /\ EmittedBy(k) = Emitted(steps[k].player2, steps[k].player1)

\* C6: exactly the players with a color_history shorter than the longest one
\* get a late-joiner bye, whatever their score, rank or has_bye flag; they
\* leave the pool, get has_bye set, and their bye Pairings come first, in
\* rank order.
LateJoinerByes ==
  Started =>
    /\ Range(late_joiners) = {i \in AllPlayers : IsLate(i)}
    /\ Increasing(late_joiners)
    /\ Len(pairings) >= Len(late_joiners)
    /\ \A k \in 1..Len(late_joiners) :
         /\ pairings[k] = [white |-> players[late_joiners[k]].id, black |-> "",
                           is_bye |-> TRUE]
         /\ players[late_joiners[k]].has_bye
         /\ late_joiners[k] \notin Range(bye_pool) \cup Range(available_players)
         /\ late_joiners[k] # bye_player
         /\ \A j \in 1..Len(steps) :
              late_joiners[k] \notin {steps[j].player1, steps[j].player2}
    /\ \A i \in AllPlayers : ~IsLate(i) => i \in Range(bye_pool)

\* the best-ranked player is a late joiner, and a decided pair is emitted
\* after its bye
TopRankedLateJoiner ==
  /\ Returned
  /\ late_joiners # <<>> /\ late_joiners[1] = 1
  /\ Len(steps) >= 1

\* C7: an emitted Pairing has is_bye true iff it was produced for a single
\* bye recipient (no opponent), and its white id is never empty.
PairingInvariant ==
  Started =>
    \A k \in 1..Len(pairings) :
      /\ pairings[k].white # ""
      /\ pairings[k].is_bye <=> k <= ByeCount

\* the candidate set of iteration k: the pool members outside the anchor's
\* history, or the whole pool when there is none
CandidateSet(k) ==
  LET new == {c \in Range(steps[k].candidates) : ~InHistory(steps[k].player1, c)}
  IN  IF new # {} THEN new ELSE Range(steps[k].candidates)

Distance(k, c) ==
  LET d == players[c].score - players[steps[k].player1].score
  IN  IF d < 0 THEN -d ELSE d

\* C8: the chosen opponent is a member of the candidate set with the least
\* absolute score difference from the anchor, and the first such member in
\* the current pool order.
OpponentSelection ==
  \A k \in 1..Len(steps) :
    /\ steps[k].player2 \in CandidateSet(k)
    /\ \A c \in CandidateSet(k) :
         /\ Distance(k, steps[k].player2) <= Distance(k, c)
         /\ Distance(k, c) = Distance(k, steps[k].player2) =>
              PosIn(steps[k].candidates, steps[k].player2) <= PosIn(steps[k].candidates, c)

\* a choice among three candidates: two tied at the least distance, one farther
TiedCandidates ==
  \E k \in 1..Len(steps) :
    /\ \E c \in CandidateSet(k) : Distance(k, c) > Distance(k, steps[k].player2)
    /\ \E c \in CandidateSet(k) :
         c # steps[k].player2 /\ Distance(k, c) = Distance(k, steps[k].player2)

Removed ==
  Range(late_joiners) \cup (IF bye_player # None THEN {bye_player} ELSE {})
  \cup UNION {{steps[k].player1, steps[k].player2} : k \in 1..Len(steps)}

\* C9: at the head of every loop iteration the pool is the ranked player
\* list minus the removed players, in rank order, and the anchor is the
\* best-ranked player still unpaired, also after a rematch fallback.
PoolOrder ==
  /\ \A i \in AllPlayers : players[i].rank = i
  /\ \A i, j \in AllPlayers :
       i < j => \/ players[i].score > players[j].score
                \/ /\ players[i].score = players[j].score
                   /\ players[i].rating >= players[j].rating
  /\ pc = "loop" =>
       /\ Range(available_players) = AllPlayers \ Removed
       /\ Len(available_players) = Cardinality(AllPlayers \ Removed)
       /\ Increasing(available_players)
  /\ \A k \in 1..Len(steps) :
       \A c \in Range(steps[k].pool) :
         players[steps[k].player1].rank <= players[c].rank

\* a loop head that follows a rematch fallback over three candidates at
\* different score distances, with a pair still to be formed
AfterFallback ==
  /\ pc = "loop"
  /\ Len(available_players) >= 2
  /\ steps # <<>>
  /\ steps[Len(steps)].fallback
  /\ Len(steps[Len(steps)].candidates) >= 3
  /\ \E c, d \in Range(steps[Len(steps)].candidates) :
       Distance(Len(steps), c) # Distance(Len(steps), d)

NoErrorState ==
  /\ pc # "error"
  /\ pc = "loop" => Len(available_players) % 2 = 0
  /\ \A k \in 1..Len(steps) : steps[k].player2 # None

TwoPerIteration ==
  (pc = "loop" /\ pc' = "loop") =>
    /\ Len(available_players') = Len(available_players) - 2
    /\ Len(steps') = Len(steps) + 1

\* C10: compute_pairings never takes the 'No valid opponent found' path and
\* terminates: the pool is even at every loop head, an iteration removes
\* exactly two players, find_best_opponent never returns None, and every call
\* that entered the loop returns.
NoErrorAndTermination ==
  /\ []NoErrorState
  /\ [][TwoPerIteration]_vars
  /\ (pc = "loop") ~> (pc = "ready")

\* a call that formed two pairs has returned
TwoPairsReturned == Returned /\ Len(steps) >= 2
====
